---- MODULE Spec2Model ----
(***************************************************************************)
(* The data-acquisition core of the vendored go-server-sdk (v7):           *)
(*   - fdv2proto: Selector, Change, ChangeSet, ChangeSetBuilder            *)
(*   - datasourcev2.StreamProcessor (streaming synchronizer)               *)
(*   - datasourcev2.PollingProcessor (polling synchronizer)                *)
(* One behaviour drives one synchronizer (variable active), together with  *)
(* its transport, the callers of Close and the injected collaborators      *)
(* (status reporter, data destination, ready channel), which are recorded  *)
(* as logs.                                                                *)
(***************************************************************************)
EXTENDS Integers, Sequences, FiniteSets, TLC

\* ------------------------------------------------------------------ bounds
MaxEvents == 4        \* stream events consumed in one behaviour
MaxErrors == 1        \* transport errors handed to errorHandler in one behaviour
MaxPolls == 3         \* poll requests issued by the polling loop in one behaviour
MaxCloseCalls == 2    \* calls of Close() in one behaviour, concurrent or sequential
MaxFetches == 1       \* calls of PollingProcessor.Fetch() in one behaviour
MaxInitializers == 2  \* initializers given to the configuration builder
MaxVersion == 2       \* versions of the items given to the data store
MaxUpserts == 3       \* calls of DataStore.Upsert in one behaviour
MaxInits == 1         \* calls of DataStore.Init in one behaviour
MaxChanges == 2       \* changes held by the ChangeSetBuilder used on its own
MaxFinishes == 2      \* calls of Finish after one Start of that builder

VARIABLES
    active,          \* which synchronizer this behaviour drives
    sp,              \* StreamProcessor fields
    sub,             \* the goroutine running subscribe/consumeStream
    stream,          \* the es.Stream the transport hands to consumeStream
    pp,              \* PollingProcessor fields
    loop,            \* the goroutine started by PollingProcessor.Sync
    ticker,          \* tickerWithInitialTick and its helper goroutine
    closeWhenReady,  \* the ready channel: number of close() executed on it
    statusReporter,  \* UpdateStatus calls: how many, the last one, how many Off without error
    dataDestination, \* SetBasis / ApplyDelta calls: how many, and the last one
    closers,         \* the calls of Close(): how many are where
    arrived,         \* what the stream delivered since the last well-formed server-intent
    budget,          \* events, transport errors and polls so far
    fetched,         \* the calls of Fetch(): how many, their requests, the last result
    d,               \* DataSystemConfigurationBuilder fields
    build,           \* the call of DataSystemConfigurationBuilder.Build
    store,           \* the contents of the data store behind the destination
    history,         \* what the store was given since it was last overwritten by Init:
                     \* what Init left, whether that lowered a version, the upserts since
    changeSetBuilder, \* a ChangeSetBuilder whose methods are called directly
    finished,        \* what its last Finish returned, and what was called since its last Start
    log              \* the changes the stream delivered, and where in them the last
                     \* events of each kind arrived

\* the builder and its Build
configVars == <<d, build>>

\* the data store
storeVars == <<store, history>>

\* the ChangeSetBuilder used on its own
builderVars == <<changeSetBuilder, finished>>

vars == <<active, sp, sub, stream, pp, loop, ticker, closeWhenReady,
          statusReporter, dataDestination, closers, arrived, budget, fetched,
          d, build, store, history, changeSetBuilder, finished, log>>

\* --------------------------------------------------------------- selector
NewSelector(state, version) == [state |-> state, version |-> version]

NoSelector == [state |-> "", version |-> 0]

IsDefined(s) == s # NoSelector

\* ------------------------------------------------- status reporter values
DataSourceStateValid == "VALID"
DataSourceStateInterrupted == "INTERRUPTED"
DataSourceStateOff == "OFF"

DataSourceErrorKindUnknown == "UNKNOWN"
DataSourceErrorKindNetworkError == "NETWORK_ERROR"
DataSourceErrorKindErrorResponse == "ERROR_RESPONSE"
DataSourceErrorKindInvalidData == "INVALID_DATA"

\* one UpdateStatus(state, DataSourceErrorInfo{Kind, StatusCode}) call
UpdateStatus(state, kind, code) == [state |-> state, kind |-> kind, code |-> code]

\* the zero DataSourceErrorInfo{}
NoErrorKind == ""

NoStatus == [state |-> "", kind |-> "", code |-> 0]

\* the status reporter after the calls in statuses, in order
Reported(r, statuses) ==
    IF statuses = <<>> THEN r
    ELSE [n |-> r.n + Len(statuses),
          last |-> statuses[Len(statuses)],
          off |-> r.off + Cardinality({i \in 1..Len(statuses) :
                        statuses[i] = UpdateStatus(DataSourceStateOff, NoErrorKind, 0)})]

\* -------------------------------------------------------------- changeset
IntentTransferFull == "xfer-full"
IntentTransferChanges == "xfer-changes"
IntentNone == "none"

ChangeTypePut == "put"
ChangeTypeDelete == "delete"

NoIntent == "nil"

NewChangeSetBuilder == [intent |-> NoIntent, changes |-> <<>>]

\* faulty variant: the changes added before are kept
StartKeepsChanges(c, code) == [intent |-> code, changes |-> c.changes]

Start(c, code) == [intent |-> code, changes |-> <<>>]

\* faulty variant: a finished full transfer leaves the intent as it was
FinishKeepsIntent(c, selector) ==
    IF c.intent = NoIntent
    THEN [err |-> TRUE, builder |-> c,
          changeSet |-> [intentCode |-> NoIntent, selector |-> NoSelector, changes |-> <<>>]]
    ELSE [err |-> FALSE,
          changeSet |-> [intentCode |-> c.intent, selector |-> selector, changes |-> c.changes],
          builder |-> [intent |-> c.intent, changes |-> <<>>]]

\* faulty variant: the changes handed out stay in the builder
FinishKeepsChanges(c, selector) ==
    IF c.intent = NoIntent
    THEN [err |-> TRUE, builder |-> c,
          changeSet |-> [intentCode |-> NoIntent, selector |-> NoSelector, changes |-> <<>>]]
    ELSE [err |-> FALSE,
          changeSet |-> [intentCode |-> c.intent, selector |-> selector, changes |-> c.changes],
          builder |-> [intent |-> IF c.intent = IntentTransferFull
                                    THEN IntentTransferChanges ELSE c.intent,
                       changes |-> c.changes]]

\* Finish returns the changeset (or the error) and the builder it leaves behind
Finish(c, selector) ==
    IF c.intent = NoIntent
    THEN [err |-> TRUE, builder |-> c,
          changeSet |-> [intentCode |-> NoIntent, selector |-> NoSelector, changes |-> <<>>]]
    ELSE [err |-> FALSE,
          changeSet |-> [intentCode |-> c.intent, selector |-> selector, changes |-> c.changes],
          builder |-> [intent |-> IF c.intent = IntentTransferFull
                                    THEN IntentTransferChanges ELSE c.intent,
                       changes |-> <<>>]]

\* faulty variant: the new change is put in front of the accumulated ones
AddPutInFront(c, kind, key, version, object) ==
    [c EXCEPT !.changes = <<[Action |-> ChangeTypePut, Kind |-> kind, Key |-> key,
                             Version |-> version, Object |-> object]>> \o @]

AddPut(c, kind, key, version, object) ==
    [c EXCEPT !.changes = Append(@, [Action |-> ChangeTypePut, Kind |-> kind, Key |-> key,
                                     Version |-> version, Object |-> object])]

AddDelete(c, kind, key, version) ==
    [c EXCEPT !.changes = Append(@, [Action |-> ChangeTypeDelete, Kind |-> kind, Key |-> key,
                                     Version |-> version, Object |-> ""])]

\* ------------------------------------------------------- protocol events
EventHeartbeat == "heart-beat"
EventServerIntent == "server-intent"
EventPutObject == "put-object"
EventDeleteObject == "delete-object"
EventGoodbye == "goodbye"
EventError == "error"
EventPayloadTransferred == "payload-transferred"
EventUnknown == "unknown-event"

\* the event types whose body consumeStream unmarshals
ParsedEventNames == {EventServerIntent, EventPutObject, EventDeleteObject,
                     EventGoodbye, EventError, EventPayloadTransferred}

IntentCodes == {IntentTransferFull, IntentTransferChanges, IntentNone}

\* the selectors a payload-transferred event or a poll response may carry
Selectors == {NewSelector("s1", 1), NewSelector("s2", 2)}

\* an event as the transport delivers it: ok says whether its body unmarshals
Event(name, ok, code, kind, key, version, object, selector) ==
    [name |-> name, ok |-> ok, code |-> code, kind |-> kind, key |-> key,
     version |-> version, object |-> object, selector |-> selector]

BodylessEvent(name, ok) == Event(name, ok, "", "", "", 0, "", NoSelector)

PutObjectEvents == {Event(EventPutObject, TRUE, "", "flag", "A", 1, "objA", NoSelector)}

DeleteObjectEvents == {Event(EventDeleteObject, TRUE, "", "flag", "B", 2, "", NoSelector)}

WellFormedEvents ==
    {Event(EventServerIntent, TRUE, c, "", "", 0, "", NoSelector) : c \in IntentCodes}
    \cup PutObjectEvents \cup DeleteObjectEvents
    \cup {Event(EventPayloadTransferred, TRUE, "", "", "", 0, "", s) : s \in Selectors}
    \cup {BodylessEvent(n, TRUE) : n \in {EventHeartbeat, EventGoodbye, EventError, EventUnknown}}

MalformedEvents == {BodylessEvent(n, FALSE) : n \in ParsedEventNames}

Events == WellFormedEvents \cup MalformedEvents

\* ------------------------------------------------------ data destination
SetBasis(changes, selector, persist) ==
    [op |-> "SetBasis", changes |-> changes, selector |-> selector, persist |-> persist]

ApplyDelta(changes, selector, persist) ==
    [op |-> "ApplyDelta", changes |-> changes, selector |-> selector, persist |-> persist]

NoCall == [op |-> "", changes |-> <<>>, selector |-> NoSelector, persist |-> FALSE]

\* the data destination after the calls in calls, in order
Called(dest, calls) ==
    IF calls = <<>> THEN dest
    ELSE [n |-> dest.n + Len(calls), last |-> calls[Len(calls)]]

\* the dispatch by intent code at the end of consumeStream's payload-transferred case
dispatch(changeSet) ==
    CASE changeSet.intentCode = IntentTransferFull ->
            <<SetBasis(changeSet.changes, changeSet.selector, TRUE)>>
      [] changeSet.intentCode = IntentTransferChanges ->
            <<ApplyDelta(changeSet.changes, changeSet.selector, TRUE)>>
      [] OTHER -> <<>>

\* ------------------------------------------------ errors and their classes
StatusCodes == {401, 500}

\* whether an HTTP status is recoverable: 4xx responses other than timeouts and
\* rate limiting are permanent, everything else is retried
checkIfErrorIsRecoverableAndLog(statusCode) ==
    IF statusCode >= 400 /\ statusCode < 500
    THEN statusCode \in {408, 429}
    ELSE TRUE

\* an error of the stream transport: a SubscriptionError carries an HTTP status
TransportErrors ==
    {[subscription |-> TRUE, code |-> c] : c \in StatusCodes}
    \cup {[subscription |-> FALSE, code |-> 0]}

\* ------------------------------------------------------- StreamProcessor
\* what one pass through the switch of consumeStream leaves behind
Handled(builder, calls, notify) ==
    [changeSetBuilder |-> builder, calls |-> calls, notify |-> notify,
     status |-> <<>>, processedEvent |-> TRUE, shouldRestart |-> FALSE]

\* faulty variant: the stream is not restarted
gotMalformedEventNoRestart ==
    [changeSetBuilder |-> NewChangeSetBuilder, calls |-> <<>>, notify |-> FALSE,
     status |-> <<UpdateStatus(DataSourceStateInterrupted, DataSourceErrorKindInvalidData, 0)>>,
     processedEvent |-> FALSE, shouldRestart |-> FALSE]

gotMalformedEvent ==
    [changeSetBuilder |-> NewChangeSetBuilder, calls |-> <<>>, notify |-> FALSE,
     status |-> <<UpdateStatus(DataSourceStateInterrupted, DataSourceErrorKindInvalidData, 0)>>,
     processedEvent |-> FALSE, shouldRestart |-> TRUE]

\* faulty variant: code none is started like any other intent
onServerIntentNoSpecialCase(event, b) ==
    IF ~event.ok THEN gotMalformedEvent
    ELSE Handled(Start(b, event.code), <<>>, FALSE)

onServerIntent(event, b) ==
    IF ~event.ok THEN gotMalformedEvent
    ELSE IF event.code = IntentNone THEN Handled(b, <<>>, TRUE)
    ELSE Handled(Start(b, event.code), <<>>, FALSE)

onPutObject(event, b) ==
    IF ~event.ok THEN gotMalformedEvent
    ELSE Handled(AddPut(b, event.kind, event.key, event.version, event.object), <<>>, FALSE)

onDeleteObject(event, b) ==
    IF ~event.ok THEN gotMalformedEvent
    ELSE Handled(AddDelete(b, event.kind, event.key, event.version), <<>>, FALSE)

onGoodbye(event, b) ==
    IF ~event.ok THEN gotMalformedEvent ELSE Handled(b, <<>>, FALSE)

\* faulty variant: the accumulation is not abandoned
onErrorKeepsBuilder(event, b) ==
    IF ~event.ok THEN gotMalformedEvent ELSE Handled(b, <<>>, FALSE)

onError(event, b) ==
    IF ~event.ok THEN gotMalformedEvent ELSE Handled(NewChangeSetBuilder, <<>>, FALSE)

onPayloadTransferred(event, b) ==
    IF ~event.ok THEN gotMalformedEvent
    ELSE LET f == Finish(b, event.selector)
         IN IF f.err THEN gotMalformedEvent
            ELSE Handled(f.builder, dispatch(f.changeSet), TRUE)

\* the switch on the event name in consumeStream
consumeEvent(event, b) ==
    CASE event.name = EventHeartbeat -> Handled(b, <<>>, FALSE)
      [] event.name = EventServerIntent -> onServerIntent(event, b)
      [] event.name = EventPutObject -> onPutObject(event, b)
      [] event.name = EventDeleteObject -> onDeleteObject(event, b)
      [] event.name = EventGoodbye -> onGoodbye(event, b)
      [] event.name = EventError -> onError(event, b)
      [] event.name = EventPayloadTransferred -> onPayloadTransferred(event, b)
      [] OTHER -> Handled(b, <<>>, FALSE)

\* faulty variant: Valid is reported whatever the event was
reportProcessedAlways(r) ==
    r.status \o <<UpdateStatus(DataSourceStateValid, NoErrorKind, 0)>>

\* after the switch: Valid unless the event was malformed
reportProcessed(r) ==
    r.status \o (IF r.processedEvent
                 THEN <<UpdateStatus(DataSourceStateValid, NoErrorKind, 0)>>
                 ELSE <<>>)

\* faulty variant: the flag is overwritten with whether this call was the first
setInitializedAndNotifyClientFirstOnly(success, p, ch) ==
    [sp |-> [p EXCEPT !.isInitialized = success /\ ~p.readyOnce, !.readyOnce = TRUE],
     closeWhenReady |-> IF p.readyOnce THEN ch ELSE ch + 1]

\* faulty variant: the ready channel is closed without readyOnce
setInitializedAndNotifyClientNoOnce(success, p, ch) ==
    [sp |-> [p EXCEPT !.isInitialized = @ \/ success, !.readyOnce = TRUE],
     closeWhenReady |-> ch + 1]

setInitializedAndNotifyClient(success, p, ch) ==
    [sp |-> [p EXCEPT !.isInitialized = @ \/ success, !.readyOnce = TRUE],
     closeWhenReady |-> IF p.readyOnce THEN ch ELSE ch + 1]

\* the request subscribe builds: the query string as a list of parameters
BadURI == "%bad"

DefaultConfig == [URI |-> "https://stream", FilterKey |-> ""]

\* the configurations and resume selectors of the behaviours of Spec
Configs == {DefaultConfig, [URI |-> BadURI, FilterKey |-> ""]}

ResumeSelectors == {NoSelector, NewSelector("s1", 1)}

\* the configurations and resume selectors of the behaviours of SpecSubscribe
AllConfigs == [URI : {"https://stream", BadURI}, FilterKey : {"", "f1", "f2"}]

AllResumeSelectors == {NoSelector, NewSelector("s1", 1), NewSelector("s2", 2),
                       NewSelector("", 1), NewSelector("s1", 0)}

newStreamRequest(cfg, selector) ==
    LET path == IF IsDefined(selector)
                THEN <<[key |-> "basis", value |-> selector.state]>>
                ELSE <<>>
        reqErr == cfg.URI = BadURI
    IN [built |-> TRUE, reqErr |-> reqErr,
        RawQuery |-> IF reqErr THEN <<>>
                     ELSE IF cfg.FilterKey # ""
                          THEN <<[key |-> "filter", value |-> cfg.FilterKey]>>
                          ELSE path]

NoRequest == [built |-> FALSE, reqErr |-> FALSE, RawQuery |-> <<>>]

\* faulty variant: a non-recoverable status is reported, and retried
errorHandlerAlwaysRetries(err) ==
    IF err.subscription
    THEN [status |-> UpdateStatus(IF checkIfErrorIsRecoverableAndLog(err.code)
                                  THEN DataSourceStateInterrupted ELSE DataSourceStateOff,
                                  DataSourceErrorKindErrorResponse, err.code),
          CloseNow |-> FALSE]
    ELSE [status |-> UpdateStatus(DataSourceStateInterrupted,
                                  DataSourceErrorKindNetworkError, 0),
          CloseNow |-> FALSE]

\* the error handler subscribe gives to the transport
errorHandler(err) ==
    IF err.subscription
    THEN IF checkIfErrorIsRecoverableAndLog(err.code)
         THEN [status |-> UpdateStatus(DataSourceStateInterrupted,
                                       DataSourceErrorKindErrorResponse, err.code),
               CloseNow |-> FALSE]
         ELSE [status |-> UpdateStatus(DataSourceStateOff,
                                       DataSourceErrorKindErrorResponse, err.code),
               CloseNow |-> TRUE]
    ELSE [status |-> UpdateStatus(DataSourceStateInterrupted,
                                  DataSourceErrorKindNetworkError, 0),
          CloseNow |-> FALSE]

\* faulty variant: Close runs its body on every call
spCloseNoOnce(once) == "body"

\* sp.closeOnce.Do in Close: run the body, wait for the running one, or return
spCloseOnce(once) ==
    CASE once = "new" -> "body"
      [] once = "running" -> "wait"
      [] OTHER -> "returned"

\* ------------------------------------------------------ PollingProcessor
\* what requester.Request() may return: a changeset, or one of three errors
NoChangeSet == [intentCode |-> NoIntent, selector |-> NoSelector, changes |-> <<>>]

PutA == [Action |-> ChangeTypePut, Kind |-> "flag", Key |-> "A", Version |-> 1, Object |-> "objA"]

DeleteB == [Action |-> ChangeTypeDelete, Kind |-> "flag", Key |-> "B", Version |-> 2, Object |-> ""]

PollChangeSets ==
    {[intentCode |-> IntentTransferFull, selector |-> NewSelector("s1", 1), changes |-> <<PutA, DeleteB>>],
     [intentCode |-> IntentTransferChanges, selector |-> NewSelector("s2", 2), changes |-> <<DeleteB>>],
     [intentCode |-> IntentNone, selector |-> NoSelector, changes |-> <<>>]}

Responses ==
    {[err |-> "", code |-> 0, changeSet |-> cs] : cs \in PollChangeSets}
    \cup {[err |-> "httpStatusError", code |-> c, changeSet |-> NoChangeSet] : c \in StatusCodes}
    \cup {[err |-> e, code |-> 0, changeSet |-> NoChangeSet] : e \in {"malformedJSONError", "networkError"}}

\* faulty variant: every changeset is applied as a full transfer
pollIgnoresIntent(response) ==
    IF response.err # "" THEN <<>>
    ELSE <<SetBasis(response.changeSet.changes, response.changeSet.selector, TRUE)>>

\* PollingProcessor.poll: the destination calls one response leads to
poll(response) ==
    IF response.err # "" THEN <<>>
    ELSE CASE response.changeSet.intentCode = IntentTransferFull ->
                <<SetBasis(response.changeSet.changes, response.changeSet.selector, TRUE)>>
           [] response.changeSet.intentCode = IntentTransferChanges ->
                <<ApplyDelta(response.changeSet.changes, response.changeSet.selector, TRUE)>>
           [] OTHER -> <<>>

\* faulty variant: a non-recoverable status is reported but the loop goes on
afterPollNeverStops(response) ==
    CASE response.err = "" ->
            [status |-> UpdateStatus(DataSourceStateValid, NoErrorKind, 0),
             stop |-> FALSE, success |-> TRUE]
      [] response.err = "httpStatusError" ->
            [status |-> UpdateStatus(IF checkIfErrorIsRecoverableAndLog(response.code)
                                     THEN DataSourceStateInterrupted ELSE DataSourceStateOff,
                                     DataSourceErrorKindErrorResponse, response.code),
             stop |-> FALSE, success |-> FALSE]
      [] response.err = "malformedJSONError" ->
            [status |-> UpdateStatus(DataSourceStateInterrupted, DataSourceErrorKindInvalidData, 0),
             stop |-> FALSE, success |-> FALSE]
      [] OTHER ->
            [status |-> UpdateStatus(DataSourceStateInterrupted, DataSourceErrorKindNetworkError, 0),
             stop |-> FALSE, success |-> FALSE]

\* faulty variant: a malformed response is reported as a network error
afterPollMalformedAsNetwork(response) ==
    CASE response.err = "" ->
            [status |-> UpdateStatus(DataSourceStateValid, NoErrorKind, 0),
             stop |-> FALSE, success |-> TRUE]
      [] response.err = "httpStatusError" ->
            IF checkIfErrorIsRecoverableAndLog(response.code)
            THEN [status |-> UpdateStatus(DataSourceStateInterrupted,
                                          DataSourceErrorKindErrorResponse, response.code),
                  stop |-> FALSE, success |-> FALSE]
            ELSE [status |-> UpdateStatus(DataSourceStateOff,
                                          DataSourceErrorKindErrorResponse, response.code),
                  stop |-> TRUE, success |-> FALSE]
      [] OTHER ->
            [status |-> UpdateStatus(DataSourceStateInterrupted, DataSourceErrorKindNetworkError, 0),
             stop |-> FALSE, success |-> FALSE]

\* the body of the ticker case in Sync's loop, after poll() returned:
\* the status reported, whether the loop returns, whether this was a success
afterPoll(response) ==
    CASE response.err = "" ->
            [status |-> UpdateStatus(DataSourceStateValid, NoErrorKind, 0),
             stop |-> FALSE, success |-> TRUE]
      [] response.err = "httpStatusError" ->
            IF checkIfErrorIsRecoverableAndLog(response.code)
            THEN [status |-> UpdateStatus(DataSourceStateInterrupted,
                                          DataSourceErrorKindErrorResponse, response.code),
                  stop |-> FALSE, success |-> FALSE]
            ELSE [status |-> UpdateStatus(DataSourceStateOff,
                                          DataSourceErrorKindErrorResponse, response.code),
                  stop |-> TRUE, success |-> FALSE]
      [] response.err = "malformedJSONError" ->
            [status |-> UpdateStatus(DataSourceStateInterrupted, DataSourceErrorKindInvalidData, 0),
             stop |-> FALSE, success |-> FALSE]
      [] OTHER ->
            [status |-> UpdateStatus(DataSourceStateInterrupted, DataSourceErrorKindNetworkError, 0),
             stop |-> FALSE, success |-> FALSE]

\* what Fetch returns when it has not been called
NoBasis == [Events |-> <<>>, Selector |-> NoSelector, Persist |-> FALSE]

\* faulty variant: the basis is applied to the destination's store only in memory
FetchNotPersisted(response) ==
    IF response.err # ""
    THEN [err |-> response.err, code |-> response.code, basis |-> NoBasis]
    ELSE [err |-> "", code |-> 0,
          basis |-> [Events |-> response.changeSet.changes,
                     Selector |-> response.changeSet.selector, Persist |-> FALSE]]

\* PollingProcessor.Fetch: the error of the request, or the basis made of the response
Fetch(response) ==
    IF response.err # ""
    THEN [err |-> response.err, code |-> response.code, basis |-> NoBasis]
    ELSE [err |-> "", code |-> 0,
          basis |-> [Events |-> response.changeSet.changes,
                     Selector |-> response.changeSet.selector, Persist |-> TRUE]]

\* notifyReady: close the ready channel under the loop's own sync.Once
notifyReady(l, ch) ==
    [loop |-> [l EXCEPT !.readyOnce = TRUE],
     closeWhenReady |-> IF l.readyOnce THEN ch ELSE ch + 1]

\* pp.closeOnce.Do in Close: run the body, wait for the running one, or return
ppCloseOnce(once) ==
    CASE once = "new" -> "body"
      [] once = "running" -> "wait"
      [] OTHER -> "returned"

\* faulty variant: the first success fires ready and leaves the flag unset
setInitializedOnceWithoutFlag(p, l, ch) ==
    IF p.setInitializedOnce
    THEN [pp |-> p, loop |-> l, closeWhenReady |-> ch]
    ELSE [pp |-> [p EXCEPT !.setInitializedOnce = TRUE],
          loop |-> notifyReady(l, ch).loop,
          closeWhenReady |-> notifyReady(l, ch).closeWhenReady]

\* faulty variant: the first-success step runs after every successful poll
setInitializedEveryTime(p, l, ch) ==
    [pp |-> [p EXCEPT !.setInitializedOnce = TRUE, !.isInitialized = TRUE],
     loop |-> [l EXCEPT !.readyOnce = TRUE],
     closeWhenReady |-> ch + 1]

\* pp.setInitializedOnce.Do(...) after a successful poll
setInitializedOnce(p, l, ch) ==
    IF p.setInitializedOnce
    THEN [pp |-> p, loop |-> l, closeWhenReady |-> ch]
    ELSE [pp |-> [p EXCEPT !.setInitializedOnce = TRUE, !.isInitialized = TRUE],
          loop |-> notifyReady(l, ch).loop,
          closeWhenReady |-> notifyReady(l, ch).closeWhenReady]

\* --------------------------------------------------- what the stream sent
\* The record of what arrived since the last well-formed server-intent: its
\* code, the changes of the put-object and delete-object events after it, in
\* arrival order, and whether nothing else has arrived since.
NothingArrived == [clean |-> FALSE, code |-> "", changes |-> <<>>]

ChangeOf(event) ==
    [Action |-> IF event.name = EventPutObject THEN ChangeTypePut ELSE ChangeTypeDelete,
     Kind |-> event.kind, Key |-> event.key, Version |-> event.version,
     Object |-> event.object]

Arrive(a, event) ==
    IF event.name = EventServerIntent /\ event.ok
    THEN [clean |-> TRUE, code |-> event.code, changes |-> <<>>]
    ELSE IF a.clean /\ event.ok /\ event.name \in {EventPutObject, EventDeleteObject}
    THEN [a EXCEPT !.changes = Append(@, ChangeOf(event))]
    ELSE NothingArrived

\* ------------------------------------------- the log of the stream's events
\* The changes of all well-formed put-object and delete-object events, in
\* arrival order, and how many of them had arrived when the last malformed
\* event, the first well-formed server-intent after it, the last well-formed
\* error event, server-intent and payload-transferred arrived; whether a
\* malformed or an error event has had no server-intent after it; whether a
\* full transfer is open (server-intent with code full, no payload-transferred,
\* error or malformed event since) or done (the same, payload-transferred since);
\* and whether the store failed the update the last event led to.
NoLog ==
    [changes |-> <<>>, malformedAt |-> 0, restartAt |-> 0, errorAt |-> 0, intentAt |-> 0,
     payloadAt |-> 0, malformedPending |-> FALSE, errorPending |-> FALSE,
     fullOpen |-> FALSE, fullDone |-> FALSE, storeFailed |-> FALSE]

Logged(l, event) ==
    LET n == Len(l.changes)
    IN CASE ~event.ok ->
              [l EXCEPT !.malformedAt = n, !.malformedPending = TRUE,
                        !.fullOpen = FALSE, !.fullDone = FALSE]
         [] event.name = EventServerIntent ->
              [l EXCEPT !.intentAt = n, !.restartAt = IF l.malformedPending THEN n ELSE @,
                        !.malformedPending = FALSE, !.errorPending = FALSE,
                        !.fullOpen = (event.code = IntentTransferFull), !.fullDone = FALSE]
         [] event.name \in {EventPutObject, EventDeleteObject} ->
              [l EXCEPT !.changes = Append(@, ChangeOf(event))]
         [] event.name = EventError ->
              [l EXCEPT !.errorAt = n, !.errorPending = TRUE,
                        !.fullOpen = FALSE, !.fullDone = FALSE]
         [] event.name = EventPayloadTransferred ->
              [l EXCEPT !.payloadAt = n, !.fullDone = l.fullOpen \/ l.fullDone,
                        !.fullOpen = FALSE]
         [] OTHER -> l

\* ----------------------------------------- DataSystemConfigurationBuilder
\* the store access modes
DataStoreModeRead == 0
DataStoreModeReadWrite == 1

DataStoreModes == {DataStoreModeRead, DataStoreModeReadWrite}

\* a ComponentConfigurer handed to the builder: nil, or one whose Build
\* returns a component, or one whose Build returns an error
Configurers == {"nil", "builds", "fails"}

InitializerLists == UNION {[1..n -> Configurers] : n \in 0..MaxInitializers}

\* the components Build may construct: the store, the i-th initializer, the
\* primary and the secondary synchronizer
Component(name, index) == [component |-> name, index |-> index]

NoComponent == Component("nil", 0)

\* the zero ss.DataSystemConfiguration{}
EmptyConfiguration ==
    [Store |-> NoComponent, StoreMode |-> 0, Initializers |-> <<>>,
     Synchronizers |-> [Primary |-> NoComponent, Secondary |-> NoComponent]]

\* the builder DataSystemModes.Custom() returns
NewDataSystemConfigurationBuilder ==
    [storeBuilder |-> "nil", storeMode |-> 0, initializerBuilders |-> <<>>,
     primarySyncBuilder |-> "nil", secondarySyncBuilder |-> "nil",
     config |-> EmptyConfiguration]

\* the errors Build returns
NoError == [error |-> "", component |-> NoComponent]

SecondaryWithoutPrimary ==
    [error |-> "cannot have a secondary synchronizer without a primary synchronizer",
     component |-> NoComponent]

InitializerIsNil(i) == [error |-> "initializer is nil", component |-> Component("initializer", i)]

\* the error the Build of a component's configurer returned
BuildError(c) == [error |-> "build", component |-> c]

\* faulty variant: a secondary synchronizer is accepted without a primary
validateSynchronizersNever(b) == FALSE

\* the first check of Build: a secondary synchronizer without a primary
validateSynchronizers(b) ==
    b.secondarySyncBuilder # "nil" /\ b.primarySyncBuilder = "nil"

\* faulty variant: the initializer is put in front of those built before
prependInitializer(conf, initializer) ==
    [conf EXCEPT !.Initializers = <<initializer>> \o @]

\* conf.Initializers = append(conf.Initializers, initializer)
appendInitializer(conf, initializer) ==
    [conf EXCEPT !.Initializers = Append(@, initializer)]

\* Build has not been called
NotBuilding ==
    [pc |-> "idle", conf |-> EmptyConfiguration, i |-> 0, constructed |-> <<>>,
     err |-> NoError, result |-> EmptyConfiguration]

\* Build returns the empty configuration and an error
Failed(b, err) == [b EXCEPT !.pc = "done", !.err = err, !.result = EmptyConfiguration,
                            !.conf = EmptyConfiguration, !.i = 0]

\* -------------------------------------------------------------- DataStore
\* The store behind the data destination, one collection of it: what SetBasis
\* (through Init) and a delta (through Upsert) leave in it.
Keys == {"A", "B"}

\* ItemDescriptor{Version, Item}; Item is nil in the placeholder of a deleted item
ItemDescriptor(version, item) == [Version |-> version, Item |-> item]

DeletedItem == "nil"

Items == {"objA", "objB", DeletedItem}

\* what the store answers for a key it does not hold
NotFound == ItemDescriptor(-1, "")

EmptyStore == [k \in Keys |-> NotFound]

\* the item a change stands for: the object of a put, the placeholder of a delete
ItemOf(change) ==
    ItemDescriptor(change.Version,
                   IF change.Action = ChangeTypePut THEN change.Object ELSE DeletedItem)

\* the full-transfer change lists given to the store (no key twice)
BasisChanges ==
    {<<>>,
     <<PutA>>,
     <<[PutA EXCEPT !.Version = 2, !.Object = "objB"], DeleteB>>,
     <<[DeleteB EXCEPT !.Version = 1]>>}

\* faulty variant: items the input does not name are kept
InitMerging(st, changes) ==
    [k \in Keys |->
        IF \E i \in 1..Len(changes) : changes[i].Key = k
        THEN ItemOf(changes[CHOOSE i \in 1..Len(changes) : changes[i].Key = k])
        ELSE st[k]]

\* Init: all previous data is discarded, whatever the versions
StoreInit(st, changes) ==
    [k \in Keys |->
        IF \E i \in 1..Len(changes) : changes[i].Key = k
        THEN ItemOf(changes[CHOOSE i \in 1..Len(changes) : changes[i].Key = k])
        ELSE NotFound]

\* faulty variant: an item of the same version is taken too
UpsertNotStrict(st, key, item) ==
    IF st[key].Version <= item.Version
    THEN [store |-> [st EXCEPT ![key] = item], updated |-> TRUE]
    ELSE [store |-> st, updated |-> FALSE]

\* Upsert: the item is stored if the version held is less than its version
Upsert(st, key, item) ==
    IF st[key].Version < item.Version
    THEN [store |-> [st EXCEPT ![key] = item], updated |-> TRUE]
    ELSE [store |-> st, updated |-> FALSE]

\* ------------------------------------------------------------------- Init
\* the state after NewStreamProcessor / newPollingProcessor, for one of the
\* synchronizers in kinds and, for the streaming one, a configuration in configs
InitOf(kinds, configs) ==
    /\ active \in kinds
    /\ sp \in {[cfg |-> c, isInitialized |-> FALSE, halt |-> 0,
                readyOnce |-> FALSE, closeOnce |-> "new"] :
               c \in IF active = "streaming" THEN configs ELSE {DefaultConfig}}
    /\ sub = [pc |-> "idle", selector |-> NoSelector, req |-> NoRequest,
              changeSetBuilder |-> NewChangeSetBuilder]
    /\ stream = "none"
    /\ pp = [isInitialized |-> FALSE, setInitializedOnce |-> FALSE, quit |-> 0,
             closeOnce |-> "new"]
    /\ loop = [pc |-> "idle", readyOnce |-> FALSE]
    /\ ticker = [helper |-> "none", C |-> 0, stopped |-> FALSE]
    /\ closeWhenReady = 0
    /\ statusReporter = [n |-> 0, last |-> NoStatus, off |-> 0]
    /\ dataDestination = [n |-> 0, last |-> NoCall]
    /\ closers = [calls |-> 0, body |-> 0, report |-> 0, waiting |-> 0, returned |-> 0]
    /\ arrived = NothingArrived
    /\ budget = [events |-> 0, errors |-> 0, polls |-> 0]
    /\ fetched = [calls |-> 0, requests |-> 0, err |-> "", code |-> 0, basis |-> NoBasis]

\* no builder in use, and an empty store
InitRest ==
    /\ d = NewDataSystemConfigurationBuilder
    /\ build = NotBuilding
    /\ store = EmptyStore
    /\ history = [basis |-> EmptyStore, upserts |-> <<>>, inits |-> 0, lowered |-> FALSE]
    /\ changeSetBuilder = NewChangeSetBuilder
    /\ finished = [err |-> FALSE, changeSet |-> NoChangeSet, started |-> NoIntent,
                   finishes |-> 0, added |-> 0]
    /\ log = NoLog

\* the builder, before any of its methods is called
InitBuild == InitOf({"streaming"}, {DefaultConfig}) /\ InitRest

\* the store, empty
InitStore == InitOf({"streaming"}, {DefaultConfig}) /\ InitRest

\* a new ChangeSetBuilder
InitChangeSet == InitOf({"streaming"}, {DefaultConfig}) /\ InitRest

\* the streaming synchronizer under the default configuration
InitStream == InitOf({"streaming"}, {DefaultConfig}) /\ InitRest

\* the polling synchronizer
InitPolling == InitOf({"polling"}, {DefaultConfig}) /\ InitRest

Init == InitOf({"streaming", "polling"}, Configs) /\ InitRest

InitSubscribe == InitOf({"streaming"}, AllConfigs) /\ InitRest

\* ------------------------------------------- StreamProcessor: Sync, subscribe
\* Sync starts the subscribe goroutine with the ready channel and the selector
SpSync(selector) ==
    /\ active = "streaming"
    /\ sub.pc = "idle"
    /\ sub' = [sub EXCEPT !.pc = "subscribe", !.selector = selector]
    /\ UNCHANGED <<configVars, storeVars, builderVars, log, fetched, active, sp, stream, pp, loop, ticker, closeWhenReady, statusReporter,
                   dataDestination, closers, arrived, budget>>

\* subscribe up to the call of SubscribeWithRequestAndOptions
SpSubscribe ==
    /\ sub.pc = "subscribe"
    /\ LET req == newStreamRequest(sp.cfg, sub.selector)
       IN IF req.reqErr
          THEN /\ statusReporter' = Reported(statusReporter,
                        <<UpdateStatus(DataSourceStateOff, DataSourceErrorKindUnknown, 0)>>)
               /\ closeWhenReady' = closeWhenReady + 1
               /\ sub' = [sub EXCEPT !.pc = "done", !.req = req]
          ELSE /\ sub' = [sub EXCEPT !.pc = "connecting", !.req = req]
               /\ UNCHANGED <<statusReporter, closeWhenReady>>
    /\ UNCHANGED <<configVars, storeVars, builderVars, log, fetched, active, sp, stream, pp, loop, ticker, dataDestination, closers,
                   arrived, budget>>

\* the first connection succeeds: SubscribeWithRequestAndOptions has taken the
\* request and returns the stream, and subscribe calls consumeStream
SpConnected ==
    /\ sub.pc = "connecting"
    /\ sub' = [sub EXCEPT !.pc = "consume", !.selector = NoSelector, !.req = NoRequest]
    /\ stream' = "connected"
    /\ UNCHANGED <<configVars, storeVars, builderVars, log, fetched, active, sp, pp, loop, ticker, closeWhenReady, statusReporter,
                   dataDestination, closers, arrived, budget>>

\* the first connection fails: the transport asks errorHandler, and either
\* retries or makes SubscribeWithRequestAndOptions return the error
SpConnectError(err) ==
    /\ sub.pc = "connecting"
    /\ budget.errors < MaxErrors
    /\ budget' = [budget EXCEPT !.errors = @ + 1]
    /\ LET h == errorHandler(err)
       IN /\ statusReporter' = Reported(statusReporter, <<h.status>>)
          /\ IF h.CloseNow
             THEN /\ closeWhenReady' = closeWhenReady + 1
                  /\ sub' = [sub EXCEPT !.pc = "done"]
             ELSE UNCHANGED <<closeWhenReady, sub>>
    /\ UNCHANGED <<configVars, storeVars, builderVars, log, fetched, active, sp, stream, pp, loop, ticker, dataDestination, closers, arrived>>

\* ------------------------------------------ StreamProcessor: consumeStream
\* one iteration of the loop that receives an event from stream.Events: what it
\* does to the synchronizer and its collaborators
SpConsumeEvent(event) ==
    /\ sub.pc = "consume"
    /\ stream = "connected"
    /\ budget.events < MaxEvents
    /\ budget' = [budget EXCEPT !.events = @ + 1]
    /\ LET r == consumeEvent(event, sub.changeSetBuilder)
           n == IF r.notify
                THEN setInitializedAndNotifyClient(TRUE, sp, closeWhenReady)
                ELSE [sp |-> sp, closeWhenReady |-> closeWhenReady]
       IN /\ sub' = [sub EXCEPT !.changeSetBuilder = r.changeSetBuilder]
          /\ dataDestination' = Called(dataDestination, r.calls)
          /\ sp' = n.sp
          /\ closeWhenReady' = n.closeWhenReady
          /\ statusReporter' = Reported(statusReporter, reportProcessed(r))
          /\ stream' = IF r.shouldRestart THEN "retrying" ELSE stream
    /\ arrived' = Arrive(arrived, event)
    /\ UNCHANGED <<configVars, storeVars, builderVars, fetched, active, pp, loop, ticker, closers>>

\* one iteration of the loop that receives an event from stream.Events
SpConsume(event) == SpConsumeEvent(event) /\ UNCHANGED log

\* the same iteration, with the event entered in the log; storeFailed says
\* whether the store failed the update the destination was handed
SpConsumeLogged(event, storeFailed) ==
    /\ SpConsumeEvent(event)
    /\ log' = [Logged(log, event) EXCEPT
                   !.storeFailed = storeFailed /\ dataDestination'.n > dataDestination.n]

\* the loop finds stream.Events closed and returns
SpEventsClosed ==
    /\ sub.pc = "consume"
    /\ stream = "closed"
    /\ sub' = [sub EXCEPT !.pc = "done"]
    /\ UNCHANGED <<configVars, storeVars, builderVars, log, fetched, active, sp, stream, pp, loop, ticker, closeWhenReady, statusReporter,
                   dataDestination, closers, arrived, budget>>

\* the loop receives from sp.halt: stream.Close() and return
SpHalt ==
    /\ sub.pc = "consume"
    /\ sp.halt > 0
    /\ stream' = "closed"
    /\ sub' = [sub EXCEPT !.pc = "done"]
    /\ UNCHANGED <<configVars, storeVars, builderVars, log, fetched, active, sp, pp, loop, ticker, closeWhenReady, statusReporter,
                   dataDestination, closers, arrived, budget>>

\* ------------------------------------------------- the stream's transport
\* the connection drops (an error without HTTP status) or a reconnect fails (any
\* error): the transport asks errorHandler, then retries, or closes the stream
\* and with it the Events channel
StreamError(err) ==
    /\ \/ stream = "retrying"
       \/ stream = "connected" /\ ~err.subscription
    /\ budget.errors < MaxErrors
    /\ budget' = [budget EXCEPT !.errors = @ + 1]
    /\ LET h == errorHandler(err)
       IN /\ statusReporter' = Reported(statusReporter, <<h.status>>)
          /\ stream' = IF h.CloseNow THEN "closed" ELSE "retrying"
    /\ UNCHANGED <<configVars, storeVars, builderVars, log, fetched, active, sp, sub, pp, loop, ticker, closeWhenReady, dataDestination,
                   closers, arrived>>

\* a retry or a restart succeeds
StreamReconnected ==
    /\ stream = "retrying"
    /\ stream' = "connected"
    /\ UNCHANGED <<configVars, storeVars, builderVars, log, fetched, active, sp, sub, pp, loop, ticker, closeWhenReady, statusReporter,
                   dataDestination, closers, arrived, budget>>

\* ------------------------------------------------- StreamProcessor: Close
\* a caller enters Close and reaches closeOnce.Do
SpClose ==
    /\ active = "streaming"
    /\ closers.calls < MaxCloseCalls
    /\ LET next == spCloseOnce(sp.closeOnce)
       IN /\ closers' = [closers EXCEPT !.calls = @ + 1,
                                        !.body = IF next = "body" THEN @ + 1 ELSE @,
                                        !.waiting = IF next = "wait" THEN @ + 1 ELSE @,
                                        !.returned = IF next = "returned" THEN @ + 1 ELSE @]
          /\ sp' = IF next = "body" THEN [sp EXCEPT !.closeOnce = "running"] ELSE sp
    /\ UNCHANGED <<configVars, storeVars, builderVars, log, fetched, active, sub, stream, pp, loop, ticker, closeWhenReady, statusReporter,
                   dataDestination, arrived, budget>>

\* the body of closeOnce.Do: close(sp.halt)
SpCloseHalt ==
    /\ active = "streaming"
    /\ closers.body > 0
    /\ sp' = [sp EXCEPT !.halt = @ + 1]
    /\ closers' = [closers EXCEPT !.body = @ - 1, !.report = @ + 1]
    /\ UNCHANGED <<configVars, storeVars, builderVars, log, fetched, active, sub, stream, pp, loop, ticker, closeWhenReady, statusReporter,
                   dataDestination, arrived, budget>>

\* the body of closeOnce.Do: UpdateStatus(Off), then Close returns nil
SpCloseReport ==
    /\ closers.report > 0
    /\ statusReporter' = Reported(statusReporter,
                                  <<UpdateStatus(DataSourceStateOff, NoErrorKind, 0)>>)
    /\ sp' = [sp EXCEPT !.closeOnce = "done"]
    /\ closers' = [closers EXCEPT !.report = @ - 1, !.returned = @ + 1]
    /\ UNCHANGED <<configVars, storeVars, builderVars, log, fetched, active, sub, stream, pp, loop, ticker, closeWhenReady, dataDestination,
                   arrived, budget>>

\* a caller that found closeOnce running returns nil once the body has finished
SpCloseWaited ==
    /\ active = "streaming"
    /\ closers.waiting > 0
    /\ sp.closeOnce = "done"
    /\ closers' = [closers EXCEPT !.waiting = @ - 1, !.returned = @ + 1]
    /\ UNCHANGED <<configVars, storeVars, builderVars, log, fetched, active, sp, sub, stream, pp, loop, ticker, closeWhenReady,
                   statusReporter, dataDestination, arrived, budget>>

\* ------------------------------------------------ PollingProcessor: Close
PpClose ==
    /\ active = "polling"
    /\ closers.calls < MaxCloseCalls
    /\ LET next == ppCloseOnce(pp.closeOnce)
       IN /\ closers' = [closers EXCEPT !.calls = @ + 1,
                                        !.body = IF next = "body" THEN @ + 1 ELSE @,
                                        !.waiting = IF next = "wait" THEN @ + 1 ELSE @,
                                        !.returned = IF next = "returned" THEN @ + 1 ELSE @]
          /\ pp' = IF next = "body" THEN [pp EXCEPT !.closeOnce = "running"] ELSE pp
    /\ UNCHANGED <<configVars, storeVars, builderVars, log, fetched, active, sp, sub, stream, loop, ticker, closeWhenReady, statusReporter,
                   dataDestination, arrived, budget>>

\* the body of closeOnce.Do: close(pp.quit), then Close returns nil
PpCloseQuit ==
    /\ active = "polling"
    /\ closers.body > 0
    /\ pp' = [pp EXCEPT !.quit = @ + 1, !.closeOnce = "done"]
    /\ closers' = [closers EXCEPT !.body = @ - 1, !.returned = @ + 1]
    /\ UNCHANGED <<configVars, storeVars, builderVars, log, fetched, active, sp, sub, stream, loop, ticker, closeWhenReady, statusReporter,
                   dataDestination, arrived, budget>>

\* a caller that found closeOnce running returns nil once the body has finished
PpCloseWaited ==
    /\ active = "polling"
    /\ closers.waiting > 0
    /\ pp.closeOnce = "done"
    /\ closers' = [closers EXCEPT !.waiting = @ - 1, !.returned = @ + 1]
    /\ UNCHANGED <<configVars, storeVars, builderVars, log, fetched, active, sp, sub, stream, pp, loop, ticker, closeWhenReady,
                   statusReporter, dataDestination, arrived, budget>>

\* ------------------------------------------------- PollingProcessor: Sync
\* Sync creates the ticker (with its helper goroutine) and starts the loop
PpSync ==
    /\ active = "polling"
    /\ loop.pc = "idle"
    /\ loop' = [loop EXCEPT !.pc = "select"]
    /\ ticker' = [helper |-> "initial", C |-> 0, stopped |-> FALSE]
    /\ UNCHANGED <<configVars, storeVars, builderVars, log, fetched, active, sp, sub, stream, pp, closeWhenReady, statusReporter,
                   dataDestination, closers, arrived, budget>>

\* the time.Ticker puts a tick into its channel (capacity 1) unless stopped
TickerTick ==
    /\ ticker.helper # "none"
    /\ ~ticker.stopped
    /\ ticker.C = 0
    /\ ticker' = [ticker EXCEPT !.C = 1]
    /\ UNCHANGED <<configVars, storeVars, builderVars, log, fetched, active, sp, sub, stream, pp, loop, closeWhenReady, statusReporter,
                   dataDestination, closers, arrived, budget>>

\* the helper goroutine takes a tick from the time.Ticker, to forward it
TickerForward ==
    /\ ticker.helper = "range"
    /\ ticker.C = 1
    /\ ticker' = [ticker EXCEPT !.helper = "send", !.C = 0]
    /\ UNCHANGED <<configVars, storeVars, builderVars, log, fetched, active, sp, sub, stream, pp, loop, closeWhenReady, statusReporter,
                   dataDestination, closers, arrived, budget>>

\* the loop receives a tick from the helper and polls once
PpPoll(response) ==
    /\ loop.pc = "select"
    /\ ticker.helper \in {"initial", "send"}
    /\ budget.polls < MaxPolls
    /\ budget' = [budget EXCEPT !.polls = @ + 1]
    /\ LET a == afterPoll(response)
           s == IF a.success
                THEN setInitializedOnce(pp, loop, closeWhenReady)
                ELSE IF a.stop
                THEN [pp |-> pp, loop |-> notifyReady(loop, closeWhenReady).loop,
                      closeWhenReady |-> notifyReady(loop, closeWhenReady).closeWhenReady]
                ELSE [pp |-> pp, loop |-> loop, closeWhenReady |-> closeWhenReady]
       IN /\ dataDestination' = Called(dataDestination, poll(response))
          /\ statusReporter' = Reported(statusReporter, <<a.status>>)
          /\ pp' = s.pp
          /\ closeWhenReady' = s.closeWhenReady
          /\ loop' = [s.loop EXCEPT !.pc = IF a.stop THEN "done" ELSE "select"]
          /\ ticker' = [ticker EXCEPT !.helper = "range",
                                      !.stopped = @ \/ a.stop]
    /\ UNCHANGED <<configVars, storeVars, builderVars, log, fetched, active, sp, sub, stream, closers, arrived>>

\* the loop receives from pp.quit and returns: deferred notifyReady, ticker.Stop
PpQuit ==
    /\ loop.pc = "select"
    /\ pp.quit > 0
    /\ loop' = [notifyReady(loop, closeWhenReady).loop EXCEPT !.pc = "done"]
    /\ closeWhenReady' = notifyReady(loop, closeWhenReady).closeWhenReady
    /\ ticker' = [ticker EXCEPT !.stopped = TRUE]
    /\ UNCHANGED <<configVars, storeVars, builderVars, log, fetched, active, sp, sub, stream, pp, statusReporter, dataDestination, closers,
                   arrived, budget>>

\* ------------------------------------------------ PollingProcessor: Fetch
\* a caller runs Fetch: one Request(), and its result handed back
PpFetch(response) ==
    /\ active = "polling"
    /\ fetched.calls < MaxFetches
    /\ LET f == Fetch(response)
       IN fetched' = [calls |-> fetched.calls + 1, requests |-> fetched.requests + 1,
                      err |-> f.err, code |-> f.code, basis |-> f.basis]
    /\ UNCHANGED <<configVars, storeVars, builderVars, log, active, sp, sub, stream, pp, loop, ticker,
                   closeWhenReady, statusReporter, dataDestination, closers, arrived, budget>>

\* ------------------------------------------------------------------- Next
Next ==
    \/ \E selector \in ResumeSelectors : SpSync(selector)
    \/ SpSubscribe
    \/ SpConnected
    \/ \E err \in TransportErrors : SpConnectError(err)
    \/ \E event \in Events : SpConsume(event)
    \/ SpEventsClosed
    \/ SpHalt
    \/ \E err \in TransportErrors : StreamError(err)
    \/ StreamReconnected
    \/ SpClose
    \/ SpCloseHalt
    \/ SpCloseReport
    \/ SpCloseWaited
    \/ PpSync
    \/ TickerTick
    \/ TickerForward
    \/ \E response \in Responses : PpPoll(response)
    \/ PpQuit
    \/ PpClose
    \/ PpCloseQuit
    \/ PpCloseWaited
    \/ \E response \in Responses : PpFetch(response)

Spec == Init /\ [][Next]_vars

\* The start of the streaming synchronizer, up to the first connection, under
\* every configuration and resume selector.
NextSubscribe ==
    \/ \E selector \in AllResumeSelectors : SpSync(selector)
    \/ SpSubscribe
    \/ SpConnected
    \/ \E err \in TransportErrors : SpConnectError(err)
    \/ SpClose
    \/ SpCloseHalt
    \/ SpCloseReport
    \/ SpCloseWaited

SpecSubscribe == InitSubscribe /\ [][NextSubscribe]_vars

\* ----------------------------------------- DataSystemConfigurationBuilder
\* DataStore(store, storeMode)
DataStore(storeBuilder, storeMode) ==
    /\ build.pc = "idle"
    /\ d' = [d EXCEPT !.storeBuilder = storeBuilder, !.storeMode = storeMode]
    /\ UNCHANGED <<build, storeVars, builderVars, log, fetched, active, sp, sub, stream, pp, loop, ticker,
                   closeWhenReady, statusReporter, dataDestination, closers, arrived, budget>>

\* Initializers(initializers...)
Initializers(initializers) ==
    /\ build.pc = "idle"
    /\ d' = [d EXCEPT !.initializerBuilders = initializers]
    /\ UNCHANGED <<build, storeVars, builderVars, log, fetched, active, sp, sub, stream, pp, loop, ticker,
                   closeWhenReady, statusReporter, dataDestination, closers, arrived, budget>>

\* Synchronizers(primary, secondary)
Synchronizers(primary, secondary) ==
    /\ build.pc = "idle"
    /\ d' = [d EXCEPT !.primarySyncBuilder = primary, !.secondarySyncBuilder = secondary]
    /\ UNCHANGED <<build, storeVars, builderVars, log, fetched, active, sp, sub, stream, pp, loop, ticker,
                   closeWhenReady, statusReporter, dataDestination, closers, arrived, budget>>

\* Build: conf := d.config, and the check of the synchronizers
BuildValidate ==
    /\ build.pc = "idle"
    /\ build' = IF validateSynchronizers(d)
                THEN Failed(build, SecondaryWithoutPrimary)
                ELSE [build EXCEPT !.pc = "store", !.conf = d.config]
    /\ UNCHANGED <<d, storeVars, builderVars, log, fetched, active, sp, sub, stream, pp, loop, ticker,
                   closeWhenReady, statusReporter, dataDestination, closers, arrived, budget>>

\* Build: the store
BuildStore ==
    /\ build.pc = "store"
    /\ LET c == Component("store", 0)
           b == [build EXCEPT !.constructed = Append(@, c)]
       IN build' = CASE d.storeBuilder = "nil" ->
                          [build EXCEPT !.pc = "initializers", !.i = 1]
                     [] d.storeBuilder = "fails" -> Failed(b, BuildError(c))
                     [] OTHER -> [b EXCEPT !.pc = "initializers", !.i = 1, !.conf.Store = c]
    /\ UNCHANGED <<d, storeVars, builderVars, log, fetched, active, sp, sub, stream, pp, loop, ticker,
                   closeWhenReady, statusReporter, dataDestination, closers, arrived, budget>>

\* Build: one iteration of the loop over the initializers
BuildInitializer ==
    /\ build.pc = "initializers"
    /\ build.i <= Len(d.initializerBuilders)
    /\ LET c == Component("initializer", build.i)
           b == [build EXCEPT !.constructed = Append(@, c)]
       IN build' = CASE d.initializerBuilders[build.i] = "nil" ->
                          Failed(build, InitializerIsNil(build.i))
                     [] d.initializerBuilders[build.i] = "fails" -> Failed(b, BuildError(c))
                     [] OTHER -> [b EXCEPT !.i = @ + 1, !.conf = appendInitializer(@, c)]
    /\ UNCHANGED <<d, storeVars, builderVars, log, fetched, active, sp, sub, stream, pp, loop, ticker,
                   closeWhenReady, statusReporter, dataDestination, closers, arrived, budget>>

\* Build: the primary synchronizer, after the last initializer
BuildPrimary ==
    /\ build.pc = "initializers"
    /\ build.i > Len(d.initializerBuilders)
    /\ LET c == Component("primary", 0)
           b == [build EXCEPT !.constructed = Append(@, c)]
       IN build' = CASE d.primarySyncBuilder = "nil" ->
                          [build EXCEPT !.pc = "secondary", !.i = 0]
                     [] d.primarySyncBuilder = "fails" -> Failed(b, BuildError(c))
                     [] OTHER -> [b EXCEPT !.pc = "secondary", !.i = 0,
                                           !.conf.Synchronizers.Primary = c]
    /\ UNCHANGED <<d, storeVars, builderVars, log, fetched, active, sp, sub, stream, pp, loop, ticker,
                   closeWhenReady, statusReporter, dataDestination, closers, arrived, budget>>

\* Build: the secondary synchronizer, and the return of conf
BuildSecondary ==
    /\ build.pc = "secondary"
    /\ LET c == Component("secondary", 0)
           b == [build EXCEPT !.constructed = Append(@, c)]
       IN build' = CASE d.secondarySyncBuilder = "nil" ->
                          [build EXCEPT !.pc = "done", !.result = build.conf,
                                        !.conf = EmptyConfiguration]
                     [] d.secondarySyncBuilder = "fails" -> Failed(b, BuildError(c))
                     [] OTHER -> [b EXCEPT !.pc = "done", !.conf = EmptyConfiguration,
                                    !.result = [build.conf EXCEPT !.Synchronizers.Secondary = c]]
    /\ UNCHANGED <<d, storeVars, builderVars, log, fetched, active, sp, sub, stream, pp, loop, ticker,
                   closeWhenReady, statusReporter, dataDestination, closers, arrived, budget>>

\* The configuration builder: any calls of its setters, then Build.
NextBuild ==
    \/ \E storeBuilder \in Configurers, storeMode \in DataStoreModes :
          DataStore(storeBuilder, storeMode)
    \/ \E initializers \in InitializerLists : Initializers(initializers)
    \/ \E primary, secondary \in Configurers : Synchronizers(primary, secondary)
    \/ BuildValidate
    \/ BuildStore
    \/ BuildInitializer
    \/ BuildPrimary
    \/ BuildSecondary

SpecBuild == InitBuild /\ [][NextBuild]_vars

\* -------------------------------------------------------------- DataStore
\* a full transfer reaches the store: Init with the items of its changes
DataStoreInit(changes) ==
    /\ history.inits < MaxInits
    /\ store' = StoreInit(store, changes)
    /\ history' = [basis |-> store', upserts |-> <<>>, inits |-> history.inits + 1,
                    lowered |-> \E k \in Keys : store'[k].Version < store[k].Version]
    /\ UNCHANGED <<configVars, builderVars, log, fetched, active, sp, sub, stream, pp, loop, ticker,
                   closeWhenReady, statusReporter, dataDestination, closers, arrived, budget>>

\* one item reaches the store: Upsert
DataStoreUpsert(key, item) ==
    /\ Len(history.upserts) < MaxUpserts
    /\ LET u == Upsert(store, key, item)
       IN /\ store' = u.store
          /\ history' = [history EXCEPT !.upserts =
                            Append(@, [key |-> key, item |-> item, updated |-> u.updated])]
    /\ UNCHANGED <<configVars, builderVars, log, fetched, active, sp, sub, stream, pp, loop, ticker,
                   closeWhenReady, statusReporter, dataDestination, closers, arrived, budget>>

NextStore ==
    \/ \E changes \in BasisChanges : DataStoreInit(changes)
    \/ \E key \in Keys, version \in 1..MaxVersion, item \in Items :
          DataStoreUpsert(key, ItemDescriptor(version, item))

SpecStore == InitStore /\ [][NextStore]_vars

\* ------------------------------------------------------- ChangeSetBuilder
\* Start(intent) on the builder
CsbStart(code) ==
    /\ changeSetBuilder' = Start(changeSetBuilder, code)
    /\ finished' = [finished EXCEPT !.started = code, !.finishes = 0, !.added = 0]
    /\ UNCHANGED <<configVars, storeVars, log, fetched, active, sp, sub, stream, pp, loop,
                   ticker, closeWhenReady, statusReporter, dataDestination, closers, arrived,
                   budget>>

\* AddPut(kind, key, version, object) on the builder
CsbAddPut ==
    /\ Len(changeSetBuilder.changes) < MaxChanges
    /\ changeSetBuilder' = AddPut(changeSetBuilder, "flag", "A", 1, "objA")
    /\ finished' = [finished EXCEPT !.added = @ + 1]
    /\ UNCHANGED <<configVars, storeVars, log, fetched, active, sp, sub, stream, pp, loop,
                   ticker, closeWhenReady, statusReporter, dataDestination, closers, arrived,
                   budget>>

\* AddDelete(kind, key, version) on the builder
CsbAddDelete ==
    /\ Len(changeSetBuilder.changes) < MaxChanges
    /\ changeSetBuilder' = AddDelete(changeSetBuilder, "flag", "B", 2)
    /\ finished' = [finished EXCEPT !.added = @ + 1]
    /\ UNCHANGED <<configVars, storeVars, log, fetched, active, sp, sub, stream, pp, loop,
                   ticker, closeWhenReady, statusReporter, dataDestination, closers, arrived,
                   budget>>

\* Finish(selector) on the builder
CsbFinish(selector) ==
    /\ finished.finishes < MaxFinishes
    /\ LET f == Finish(changeSetBuilder, selector)
       IN /\ changeSetBuilder' = f.builder
          /\ finished' = [finished EXCEPT !.err = f.err, !.changeSet = f.changeSet,
                                          !.finishes = @ + 1, !.added = 0]
    /\ UNCHANGED <<configVars, storeVars, log, fetched, active, sp, sub, stream, pp, loop,
                   ticker, closeWhenReady, statusReporter, dataDestination, closers, arrived,
                   budget>>

NextChangeSet ==
    \/ \E code \in IntentCodes : CsbStart(code)
    \/ CsbAddPut
    \/ CsbAddDelete
    \/ \E selector \in Selectors \cup {NoSelector} : CsbFinish(selector)

SpecChangeSet == InitChangeSet /\ [][NextChangeSet]_vars

\* ---------------------------------------- the streaming loop with its log
NextStream ==
    \/ \E selector \in ResumeSelectors : SpSync(selector)
    \/ SpSubscribe
    \/ SpConnected
    \/ \E err \in TransportErrors : SpConnectError(err)
    \/ \E event \in Events, storeFailed \in BOOLEAN : SpConsumeLogged(event, storeFailed)
    \/ SpEventsClosed
    \/ \E err \in TransportErrors : StreamError(err)
    \/ StreamReconnected

SpecStream == InitStream /\ [][NextStream]_vars

\* The polling synchronizer with its goroutines scheduled fairly: the Go
\* runtime runs every goroutine that can take a step, a select with a ready
\* case is left, and a time.Ticker that is not stopped goes on ticking.
NextPolling ==
    \/ PpSync
    \/ TickerTick
    \/ TickerForward
    \/ \E response \in Responses : PpPoll(response)
    \/ PpQuit
    \/ PpClose
    \/ PpCloseQuit
    \/ PpCloseWaited

SpecPollingLive ==
    /\ InitPolling
    /\ [][NextPolling]_vars
    /\ WF_vars(TickerTick)
    /\ WF_vars(TickerForward)
    /\ WF_vars(\E response \in Responses : PpPoll(response))
    /\ WF_vars(PpQuit)
    /\ WF_vars(PpCloseQuit)
    /\ WF_vars(PpCloseWaited)

\* ================================================================ claims

\* C1: the ready channel passed to Sync is never closed more than once, for
\* either synchronizer, whichever of the success, fatal-error, setup-failure
\* and Close paths run and however they interleave.
C1_ReadyClosedAtMostOnce == closeWhenReady <= 1

\* two successful payload transfers and a Close, one close of the channel
C1_Witness ==
    /\ active = "streaming"
    /\ dataDestination.n >= 2
    /\ sp.halt = 1
    /\ closeWhenReady = 1

\* C2: in the streaming synchronizer, once a transport error was classified as
\* fatal (status Off with an error response) and the synchronizer has stopped,
\* the ready signal has fired, on the first connection attempt as on a later
\* reconnect.
C2_FatalErrorFiresReady ==
    ( /\ active = "streaming"
      /\ sub.pc = "done"
      /\ statusReporter.last.state = DataSourceStateOff
      /\ statusReporter.last.kind = DataSourceErrorKindErrorResponse )
    => closeWhenReady >= 1

\* C3: a server-intent with code full-transfer, then only well-formed
\* put-object/delete-object events, then payload-transferred: exactly one
\* destination call is made, SetBasis, with those changes in arrival order, the
\* selector of the payload-transferred event and persist = TRUE.
C3_FullTransferSetsBasis ==
    [][\A event \in WellFormedEvents :
          ( /\ event.name = EventPayloadTransferred
            /\ arrived.clean
            /\ arrived.code = IntentTransferFull
            /\ SpConsume(event) )
          => dataDestination' = [n |-> dataDestination.n + 1,
                                 last |-> SetBasis(arrived.changes, event.selector, TRUE)]]_vars

\* a SetBasis with two different changes has been made
C3_Witness ==
    /\ dataDestination.n = 1
    /\ dataDestination.last.op = "SetBasis"
    /\ Len(dataDestination.last.changes) = 2
    /\ dataDestination.last.changes[1] # dataDestination.last.changes[2]
    /\ sp.isInitialized

\* C4: an event of a recognised type whose body fails to parse replaces the
\* accumulator with an empty one, reports Interrupted/InvalidData and nothing
\* else (no Valid), and restarts the stream connection.
C4_MalformedEventRestarts ==
    [][\A event \in MalformedEvents :
          SpConsume(event)
          => /\ sub'.changeSetBuilder = NewChangeSetBuilder
             /\ statusReporter' =
                    [statusReporter EXCEPT
                        !.n = @ + 1,
                        !.last = UpdateStatus(DataSourceStateInterrupted,
                                              DataSourceErrorKindInvalidData, 0)]
             /\ dataDestination' = dataDestination
             /\ stream' = "retrying"]_vars

\* a malformed event arrived third, after an accumulation could have begun
C4_Witness ==
    /\ sub.pc = "consume"
    /\ budget.events = 3
    /\ stream = "retrying"
    /\ statusReporter.n = 3
    /\ statusReporter.last = UpdateStatus(DataSourceStateInterrupted,
                                          DataSourceErrorKindInvalidData, 0)
    /\ sub.changeSetBuilder = NewChangeSetBuilder

\* C5: a well-formed server-intent with code none marks the synchronizer
\* initialized and leaves the ready channel closed, with no destination call
\* and no payload-transferred event.
C5_IntentNoneInitializes ==
    [][\A event \in WellFormedEvents :
          ( /\ event.name = EventServerIntent
            /\ event.code = IntentNone
            /\ SpConsume(event) )
          => /\ sp'.isInitialized
             /\ closeWhenReady' = 1
             /\ dataDestination' = dataDestination]_vars

\* initialized by the very first event, with no destination call
C5_Witness ==
    /\ active = "streaming"
    /\ budget.events = 1
    /\ sp.isInitialized
    /\ closeWhenReady = 1
    /\ dataDestination.n = 0

\* C6: a poll that fails with a non-recoverable HTTP status reports Off with
\* kind ErrorResponse and that code, leaves ready fired, and ends the loop;
\* a loop that has ended issues no request and reports no status any more.
C6_FatalPollStops ==
    [][ /\ \A response \in Responses :
              ( /\ response.err = "httpStatusError"
                /\ ~checkIfErrorIsRecoverableAndLog(response.code)
                /\ PpPoll(response) )
              => /\ statusReporter' =
                        [statusReporter EXCEPT
                            !.n = @ + 1,
                            !.last = UpdateStatus(DataSourceStateOff,
                                                  DataSourceErrorKindErrorResponse,
                                                  response.code)]
                 /\ closeWhenReady' = 1
                 /\ loop'.pc = "done"
        /\ (active = "polling" /\ loop.pc = "done")
              => /\ loop'.pc = "done"
                 /\ budget'.polls = budget.polls
                 /\ statusReporter' = statusReporter ]_vars

\* the loop has ended on a 401 while the helper holds a tick nobody will take
C6_Witness ==
    /\ loop.pc = "done"
    /\ statusReporter.last = UpdateStatus(DataSourceStateOff,
                                          DataSourceErrorKindErrorResponse, 401)
    /\ closeWhenReady = 1
    /\ ~pp.isInitialized
    /\ ticker.helper = "send"

\* the status a recoverable failure of a poll is reported with
InterruptedBy(response) ==
    CASE response.err = "httpStatusError" ->
            UpdateStatus(DataSourceStateInterrupted, DataSourceErrorKindErrorResponse,
                         response.code)
      [] response.err = "malformedJSONError" ->
            UpdateStatus(DataSourceStateInterrupted, DataSourceErrorKindInvalidData, 0)
      [] OTHER ->
            UpdateStatus(DataSourceStateInterrupted, DataSourceErrorKindNetworkError, 0)

\* C7: a poll that fails with a recoverable HTTP status, a malformed response
\* or a network error reports Interrupted with kind ErrorResponse and the code,
\* InvalidData, or NetworkError; it does not fire ready, does not stop the loop
\* or the ticker, and the loop waits for the next tick.
C7_RecoverablePollContinues ==
    [][\A response \in Responses :
          ( /\ response.err # ""
            /\ response.err = "httpStatusError" => checkIfErrorIsRecoverableAndLog(response.code)
            /\ PpPoll(response) )
          => /\ statusReporter' = [statusReporter EXCEPT !.n = @ + 1,
                                                         !.last = InterruptedBy(response)]
             /\ closeWhenReady' = closeWhenReady
             /\ pp' = pp
             /\ loop' = loop
             /\ loop'.pc = "select"
             /\ ticker'.helper = "range"
             /\ ticker'.stopped = ticker.stopped]_vars

\* two polls have failed, ready has not fired, and the next tick is waiting
C7_Witness ==
    /\ active = "polling"
    /\ budget.polls = 2
    /\ loop.pc = "select"
    /\ statusReporter.last.state = DataSourceStateInterrupted
    /\ closeWhenReady = 0
    /\ ~ticker.stopped
    /\ ticker.helper = "send"

\* whether the query q carries the parameter key, and with which value
Carries(q, key) == \E i \in 1..Len(q) : q[i].key = key

CarriesValue(q, key, value) == \E i \in 1..Len(q) : q[i] = [key |-> key, value |-> value]

\* C8: the initial streaming request carries the query parameter basis, set to
\* the resume selector's state, if and only if the resume selector is defined,
\* under every configuration, a filter key included.
C8_BasisIffSelectorDefined ==
    (sub.pc = "connecting")
    => /\ IsDefined(sub.selector)
            => CarriesValue(sub.req.RawQuery, "basis", sub.selector.state)
       /\ ~IsDefined(sub.selector) => ~Carries(sub.req.RawQuery, "basis")

\* C9: any number of Close calls, concurrent or sequential, act as one: the
\* stop channel is closed once, the streaming synchronizer reports Off once,
\* and every call that is over has returned nil.
C9_CloseIsIdempotent ==
    /\ sp.halt <= 1
    /\ pp.quit <= 1
    /\ statusReporter.off <= 1
    /\ closers.body + closers.report <= 1
    /\ closers.calls = closers.body + closers.report + closers.waiting + closers.returned
    /\ closers.returned >= 1
          => /\ active = "streaming" => (sp.halt = 1 /\ statusReporter.off = 1)
             /\ active = "polling" => pp.quit = 1

\* two calls of Close have returned while the first connection is in progress
C9_Witness ==
    /\ sub.pc = "connecting"
    /\ closers.returned >= 2
    /\ sp.halt = 1
    /\ statusReporter.off = 1

\* C10: when Close is called after Sync, before the synchronizer has
\* initialized or failed permanently, and the synchronizer's goroutine has
\* ended, the ready signal has fired; for both synchronizers.
C10_CloseDuringStartupFiresReady ==
    ( /\ closers.returned >= 1
      /\ \/ active = "streaming" /\ sub.pc = "done"
         \/ active = "polling" /\ loop.pc = "done" )
    => closeWhenReady >= 1

\* C11: once a call of Close has returned, the synchronizer reports no Valid
\* and no Interrupted status any more, also when Close races with an event or
\* a poll the loop is about to process; for both synchronizers.
C11_NoStatusAfterClose ==
    [][(closers.returned >= 1 /\ statusReporter' # statusReporter)
          => statusReporter'.last.state \notin {DataSourceStateValid,
                                                DataSourceStateInterrupted}]_vars

\* C12: a successful poll issues one request and makes the one destination
\* call its intent code selects: SetBasis for a full transfer, ApplyDelta for
\* an incremental one, none for no-change; with the changes and the selector of
\* the response and persist = TRUE; and Valid is the status reported after it.
C12_SuccessfulPollDispatchesOnce ==
    [][\A response \in Responses :
          (response.err = "" /\ PpPoll(response))
          => /\ budget'.polls = budget.polls + 1
             /\ LET cs == response.changeSet
                IN CASE cs.intentCode = IntentTransferFull ->
                          dataDestination' =
                              [n |-> dataDestination.n + 1,
                               last |-> SetBasis(cs.changes, cs.selector, TRUE)]
                     [] cs.intentCode = IntentTransferChanges ->
                          dataDestination' =
                              [n |-> dataDestination.n + 1,
                               last |-> ApplyDelta(cs.changes, cs.selector, TRUE)]
                     [] OTHER -> dataDestination' = dataDestination
             /\ statusReporter' =
                    [statusReporter EXCEPT
                        !.n = @ + 1,
                        !.last = UpdateStatus(DataSourceStateValid, NoErrorKind, 0)]]_vars

\* three polls, two of them with a destination call, the last an incremental one
C12_Witness ==
    /\ active = "polling"
    /\ budget.polls = 3
    /\ dataDestination.n = 2
    /\ dataDestination.last.op = "ApplyDelta"
    /\ dataDestination.last.changes = <<DeleteB>>
    /\ statusReporter.last.state = DataSourceStateValid

\* C13: the first successful poll finds the synchronizer not initialized and
\* ready not fired, and leaves it initialized with ready fired; every later
\* successful poll leaves the flag, the once and the ready channel as they are;
\* and nothing but a successful poll changes the initialized flag.
C13_FirstSuccessInitializesOnce ==
    [][ /\ \A response \in Responses :
              (response.err = "" /\ PpPoll(response))
              => IF pp.setInitializedOnce
                 THEN /\ pp' = pp
                      /\ closeWhenReady' = closeWhenReady
                      /\ loop'.readyOnce = loop.readyOnce
                 ELSE /\ ~pp.isInitialized /\ closeWhenReady = 0
                      /\ pp'.isInitialized /\ pp'.setInitializedOnce
                      /\ closeWhenReady' = 1
        /\ pp'.isInitialized # pp.isInitialized
              => \E response \in Responses : response.err = "" /\ PpPoll(response) ]_vars

\* a failure, then two successes with a destination call each
C13_Witness ==
    /\ active = "polling"
    /\ budget.polls = 3
    /\ statusReporter.n = 3
    /\ dataDestination.n = 2
    /\ pp.isInitialized
    /\ closeWhenReady = 1
    /\ loop.pc = "select"

\* C14: Fetch performs one request and hands back its error with no basis, or
\* a basis with the changes and the selector of the response and Persist =
\* TRUE; it makes no destination call, reports no status and leaves the
\* initialized flag, the ready channel and the loop alone, running or not.
C14_FetchOnlyRequests ==
    [][\A response \in Responses :
          PpFetch(response)
          => /\ fetched'.requests = fetched.requests + 1
             /\ IF response.err # ""
                THEN /\ fetched'.err = response.err
                     /\ fetched'.code = response.code
                     /\ fetched'.basis = NoBasis
                ELSE /\ fetched'.err = ""
                     /\ fetched'.basis = [Events |-> response.changeSet.changes,
                                          Selector |-> response.changeSet.selector,
                                          Persist |-> TRUE]
             /\ UNCHANGED <<dataDestination, statusReporter, pp, loop, ticker,
                            closeWhenReady, budget>>]_vars

\* Fetch returned a basis of two changes while the loop, started and not yet
\* successful, waits for its next tick
C14_Witness ==
    /\ fetched.calls = 1
    /\ fetched.err = ""
    /\ fetched.basis.Events = <<PutA, DeleteB>>
    /\ fetched.basis.Persist
    /\ loop.pc = "select"
    /\ budget.polls = 1
    /\ ~pp.isInitialized
    /\ closeWhenReady = 0
    /\ dataDestination.n = 0

\* C15: Build on a builder with a secondary synchronizer and no primary
\* returns the configuration error and the empty configuration, and no
\* component has been constructed.
C15_SecondaryNeedsPrimary ==
    ( /\ build.pc = "done"
      /\ d.secondarySyncBuilder # "nil"
      /\ d.primarySyncBuilder = "nil" )
    => /\ build.err = SecondaryWithoutPrimary
       /\ build.result = EmptyConfiguration
       /\ build.constructed = <<>>

\* rejected although a store and two initializers were there to be built
C15_Witness ==
    /\ build.pc = "done"
    /\ build.err = SecondaryWithoutPrimary
    /\ d.storeBuilder = "builds"
    /\ Len(d.initializerBuilders) = 2
    /\ d.initializerBuilders[1] = "builds"

\* the components of a builder in the order store, initializers, primary, secondary
ConstructionOrder(b) ==
    (IF b.storeBuilder # "nil" THEN <<Component("store", 0)>> ELSE <<>>)
    \o [i \in 1..Len(b.initializerBuilders) |-> Component("initializer", i)]
    \o (IF b.primarySyncBuilder # "nil" THEN <<Component("primary", 0)>> ELSE <<>>)
    \o (IF b.secondarySyncBuilder # "nil" THEN <<Component("secondary", 0)>> ELSE <<>>)

ConfigurerOf(b, c) ==
    CASE c.component = "store" -> b.storeBuilder
      [] c.component = "initializer" -> b.initializerBuilders[c.index]
      [] c.component = "primary" -> b.primarySyncBuilder
      [] OTHER -> b.secondarySyncBuilder

\* the component the configurer gives, if there is one
BuiltBy(configurer, c) == IF configurer = "nil" THEN NoComponent ELSE c

\* C16: Build constructs the components in the order store, initializers in
\* list order, primary, secondary; at the first one that fails, or the first nil
\* initializer entry, it returns that error with the empty configuration and
\* has constructed nothing later in the order; otherwise it returns them all.
C16_BuildInOrder ==
    LET o == ConstructionOrder(d)
        bad == {k \in 1..Len(o) : ConfigurerOf(d, o[k]) \in {"nil", "fails"}}
        first == CHOOSE k \in bad : \A j \in bad : k <= j
    IN /\ Len(build.constructed) <= Len(o)
       /\ build.constructed = SubSeq(o, 1, Len(build.constructed))
       /\ (build.pc = "done" /\ ~(d.secondarySyncBuilder # "nil" /\ d.primarySyncBuilder = "nil"))
             => IF bad = {}
                THEN /\ build.constructed = o
                     /\ build.err = NoError
                     /\ build.result.Store = BuiltBy(d.storeBuilder, Component("store", 0))
                     /\ build.result.Initializers =
                            [i \in 1..Len(d.initializerBuilders) |-> Component("initializer", i)]
                     /\ build.result.Synchronizers =
                            [Primary |-> BuiltBy(d.primarySyncBuilder, Component("primary", 0)),
                             Secondary |-> BuiltBy(d.secondarySyncBuilder,
                                                   Component("secondary", 0))]
                ELSE /\ build.result = EmptyConfiguration
                     /\ IF ConfigurerOf(d, o[first]) = "nil"
                        THEN /\ build.constructed = SubSeq(o, 1, first - 1)
                             /\ build.err = InitializerIsNil(o[first].index)
                        ELSE /\ build.constructed = SubSeq(o, 1, first)
                             /\ build.err = BuildError(o[first])

\* the primary failed after a store and two initializers; the secondary was not built
C16_Witness ==
    /\ build.pc = "done"
    /\ build.err = BuildError(Component("primary", 0))
    /\ Len(build.constructed) = 4
    /\ d.secondarySyncBuilder = "builds"
    /\ build.result = EmptyConfiguration

\* C17: the configuration a successful Build returns for a builder with a
\* store carries the store mode given to DataStore(store, mode).
C17_StoreModeCarried ==
    ( /\ build.pc = "done"
      /\ build.err = NoError
      /\ d.storeBuilder = "builds" )
    => build.result.StoreMode = d.storeMode

\* C18: the error of the initial connection setup of the streaming
\* synchronizer arises while the caller is in Sync, which hands it back, and
\* is not turned into a status report.
C18_SetupErrorReturnedBySync ==
    [][(active = "streaming" /\ ~sub.req.reqErr /\ sub'.req.reqErr)
          => /\ \E selector \in ResumeSelectors : SpSync(selector)
             /\ statusReporter' = statusReporter]_vars

\* C19: Init with the items of a full-transfer change list leaves in the store
\* exactly those items: every key the list names holds the item given for it,
\* every other key holds nothing, whatever versions the store held before.
C19_InitReplaces ==
    [][\A changes \in BasisChanges :
          DataStoreInit(changes)
          => \A k \in Keys :
                \/ \E i \in 1..Len(changes) : changes[i].Key = k /\ store'[k] = ItemOf(changes[i])
                \/ (\A i \in 1..Len(changes) : changes[i].Key # k) /\ store'[k] = NotFound]_vars

\* an Init has taken a key to a lower version, or away, after three upserts
C19_Witness ==
    /\ history.inits = 1
    /\ history.lowered
    /\ history.upserts = <<>>
    /\ store["A"] = ItemDescriptor(1, "objA")
    /\ store["B"] = NotFound

\* the versions the store was given for key k, by the last Init and by the
\* first n upserts after it
VersionsGiven(k, n) ==
    {history.basis[k].Version}
    \cup {history.upserts[i].item.Version :
             i \in {j \in 1..n : history.upserts[j].key = k}}

Maximum(S) == CHOOSE m \in S : \A x \in S : x <= m

\* C20: whatever upserts a key received, in whatever order, the store holds
\* for it the maximum version given, with the item of the first upsert (or the
\* Init) that gave this version, a placeholder of a deleted item included; and
\* an upsert returned false exactly when its version was not above the
\* version held, and then changed nothing.
C20_UpsertKeepsMaximum ==
    /\ \A k \in Keys :
          LET n == Len(history.upserts)
              m == Maximum(VersionsGiven(k, n))
              givers == {i \in 1..n : /\ history.upserts[i].key = k
                                      /\ history.upserts[i].item.Version = m}
          IN /\ store[k].Version = m
             /\ IF history.basis[k].Version = m
                THEN store[k] = history.basis[k]
                ELSE store[k] = history.upserts[CHOOSE i \in givers :
                                                   \A j \in givers : i <= j].item
    /\ \A i \in 1..Len(history.upserts) :
          history.upserts[i].updated
             = (history.upserts[i].item.Version
                   > Maximum(VersionsGiven(history.upserts[i].key, i - 1)))

\* version 2, then 1, then 2 again with another item: the first of the two
\* holders of the maximum stays, and only the first upsert returned true
C20_Witness ==
    /\ Len(history.upserts) = 3
    /\ \A i \in 1..3 : history.upserts[i].key = "A"
    /\ history.upserts[1].item = ItemDescriptor(2, DeletedItem)
    /\ history.upserts[2].item.Version = 1
    /\ history.upserts[3].item = ItemDescriptor(2, "objA")
    /\ store["A"] = ItemDescriptor(2, DeletedItem)
    /\ ~history.upserts[3].updated

\* C21: Finish on a builder on which an intent was started and no change
\* added since gives no error and a changeset with no changes and the given
\* selector, with the started code if it is the first Finish after the Start;
\* so does every further Finish with no change added in between.
C21_FinishWithoutChanges ==
    [][\A selector \in Selectors \cup {NoSelector} :
          ( /\ finished.started # NoIntent
            /\ finished.added = 0
            /\ CsbFinish(selector) )
          => /\ ~finished'.err
             /\ finished'.changeSet.changes = <<>>
             /\ finished'.changeSet.selector = selector
             /\ finished.finishes = 0 => finished'.changeSet.intentCode = finished.started]_vars

\* Start(full), then two calls of Finish, the second without a change before it
C21_Witness ==
    /\ finished.started = IntentTransferFull
    /\ finished.finishes = 2
    /\ finished.added = 0
    /\ ~finished.err
    /\ finished.changeSet = [intentCode |-> IntentTransferChanges,
                             selector |-> NewSelector("s2", 2), changes |-> <<>>]

\* the status a transport error is reported with
StatusOf(err) ==
    IF err.subscription
    THEN UpdateStatus(IF checkIfErrorIsRecoverableAndLog(err.code)
                      THEN DataSourceStateInterrupted ELSE DataSourceStateOff,
                      DataSourceErrorKindErrorResponse, err.code)
    ELSE UpdateStatus(DataSourceStateInterrupted, DataSourceErrorKindNetworkError, 0)

\* C22: a transport error with a non-recoverable HTTP status is reported as
\* Off/ErrorResponse with the code and ends the stream with no retry; with a
\* recoverable status it is reported as Interrupted/ErrorResponse with the code,
\* without a status as Interrupted/NetworkError, and the transport retries.
C22_TransportErrorClasses ==
    [][\A err \in TransportErrors :
          (SpConnectError(err) \/ StreamError(err))
          => /\ statusReporter' = [statusReporter EXCEPT !.n = @ + 1, !.last = StatusOf(err)]
             /\ IF err.subscription /\ ~checkIfErrorIsRecoverableAndLog(err.code)
                THEN stream' = "closed" \/ sub'.pc = "done"
                ELSE /\ stream' # "closed"
                     /\ sub'.pc = sub.pc
                     /\ stream' = "retrying" \/ sub'.pc = "connecting"]_vars

\* a reconnect after a restart was answered with a 500 and is retried
C22_Witness ==
    /\ active = "streaming"
    /\ sub.pc = "consume"
    /\ stream = "retrying"
    /\ budget.errors = 1
    /\ statusReporter.n >= 2
    /\ statusReporter.last = UpdateStatus(DataSourceStateInterrupted,
                                          DataSourceErrorKindErrorResponse, 500)

AppliedSince(at) ==
    LET a == dataDestination'.last.changes
        n == Len(log'.changes)
    IN /\ Len(a) <= n - at
       /\ a = SubSeq(log'.changes, n - Len(a) + 1, n)

\* C24: a payload-transferred that arrives after a well-formed error event,
\* with no server-intent in between, makes no destination call, does not
\* initialize the synchronizer or fire ready, is reported as
\* Interrupted/InvalidData and restarts the stream; and no destination call
\* ever carries a change received before the last error event.
C24_ErrorEventAbandons ==
    [][\A event \in WellFormedEvents, storeFailed \in BOOLEAN :
          SpConsumeLogged(event, storeFailed)
          => /\ (event.name = EventPayloadTransferred /\ log.errorPending)
                   => /\ dataDestination' = dataDestination
                      /\ sp' = sp
                      /\ closeWhenReady' = closeWhenReady
                      /\ statusReporter' =
                            [statusReporter EXCEPT
                                !.n = @ + 1,
                                !.last = UpdateStatus(DataSourceStateInterrupted,
                                                      DataSourceErrorKindInvalidData, 0)]
                      /\ stream' = "retrying"
             /\ dataDestination'.n > dataDestination.n => AppliedSince(log.errorAt)]_vars

\* server-intent, a change, an error event, then payload-transferred: nothing applied
C24_Witness ==
    /\ log.errorPending
    /\ log.errorAt = 1
    /\ log.payloadAt = 1
    /\ ~log.malformedPending
    /\ budget.events = 4
    /\ dataDestination.n = 0
    /\ ~sp.isInitialized
    /\ stream = "retrying"
    /\ statusReporter.last = UpdateStatus(DataSourceStateInterrupted,
                                          DataSourceErrorKindInvalidData, 0)

\* C25: a destination call is made only when a well-formed server-intent has
\* arrived since the last malformed event, and its change list holds only
\* changes received after the first such server-intent, so none received
\* before the malformed event.
C25_NoPartialBatch ==
    [][\A event \in Events, storeFailed \in BOOLEAN :
          (SpConsumeLogged(event, storeFailed) /\ dataDestination'.n > dataDestination.n)
          => /\ ~log.malformedPending
             /\ log.restartAt >= log.malformedAt
             /\ AppliedSince(log.restartAt)]_vars

\* a change, a malformed event, a server-intent and a payload-transferred:
\* the destination is given an empty list
C25_Witness ==
    /\ log.malformedAt = 1
    /\ log.restartAt = 1
    /\ Len(log.changes) = 1
    /\ dataDestination.n = 1
    /\ dataDestination.last.op = "SetBasis"
    /\ dataDestination.last.changes = <<>>

\* C26: every event whose body parses, of whatever type, is followed by
\* exactly one status report, Valid.
C26_ValidAfterEveryParsedEvent ==
    [][\A event \in WellFormedEvents, storeFailed \in BOOLEAN :
          SpConsumeLogged(event, storeFailed)
          => statusReporter' =
                [statusReporter EXCEPT
                    !.n = @ + 1,
                    !.last = UpdateStatus(DataSourceStateValid, NoErrorKind, 0)]]_vars

\* C26, amended: every event whose body parses is followed by exactly one
\* status report, Valid, except a payload-transferred received while the
\* accumulator holds no server-intent; that one, like every malformed event,
\* is followed by exactly one report, Interrupted/InvalidData, and no Valid.
C26_ValidUnlessInvalidData ==
    [][\A event \in Events, storeFailed \in BOOLEAN :
          SpConsumeLogged(event, storeFailed)
          => statusReporter' =
                [statusReporter EXCEPT
                    !.n = @ + 1,
                    !.last = IF \/ ~event.ok
                                \/ /\ event.name = EventPayloadTransferred
                                   /\ sub.changeSetBuilder.intent = NoIntent
                             THEN UpdateStatus(DataSourceStateInterrupted,
                                               DataSourceErrorKindInvalidData, 0)
                             ELSE UpdateStatus(DataSourceStateValid, NoErrorKind, 0)]]_vars

\* a malformed event, then, after the restart, an event that set the status to Valid
C26_Witness ==
    /\ log.malformedPending
    /\ budget.events = 2
    /\ statusReporter.n = 2
    /\ statusReporter.last = UpdateStatus(DataSourceStateValid, NoErrorKind, 0)
    /\ stream = "connected"

\* C27: when the store fails the update a destination call handed to it, the
\* stream is restarted.
C27_StoreFailureRestarts ==
    [][(log'.storeFailed /\ dataDestination'.n > dataDestination.n)
          => stream' = "retrying"]_vars

\* C28: the selector Sync was given is defined only if its state is not empty
\* and its version is not zero, and the empty selector is not defined.
C28_DefinedSelectorHasBothFields ==
    /\ ~IsDefined(NoSelector)
    /\ (sub.pc = "subscribe" /\ IsDefined(sub.selector))
          => (sub.selector.state # "" /\ sub.selector.version # 0)

\* C29: once a call of Close has returned on the polling synchronizer, the
\* loop issues no poll request.
C29_NoPollAfterClose ==
    [][(active = "polling" /\ closers.returned >= 1)
          => budget'.polls = budget.polls]_vars

\* C30: the change list of a destination call holds only changes received
\* after the last well-formed server-intent, whatever its code.
C30_NothingFromBeforeServerIntent ==
    [][\A event \in Events, storeFailed \in BOOLEAN :
          (SpConsumeLogged(event, storeFailed) /\ dataDestination'.n > dataDestination.n)
          => AppliedSince(log.intentAt)]_vars

\* the initialized flag of the synchronizer in use
IsInitialized == IF active = "streaming" THEN sp.isInitialized ELSE pp.isInitialized

\* C31: no step of either synchronizer, be it a malformed event, a restart, a
\* recoverable or fatal error, a failed poll or Close, takes the initialized
\* flag from true back to false.
C31_InitializedIsMonotonic ==
    [][ /\ sp.isInitialized => sp'.isInitialized
        /\ pp.isInitialized => pp'.isInitialized ]_vars

\* initialized, then further events, a transport error and a Close that halted
\* the loop
C31_Witness ==
    /\ active = "streaming"
    /\ sp.isInitialized
    /\ budget.events >= 2
    /\ budget.errors = 1
    /\ sp.halt = 1
    /\ sub.pc = "done"
    /\ statusReporter.last.state = DataSourceStateOff

C33_BackgroundTasksTerminate ==
    (loop.pc # "idle" /\ (pp.quit > 0 \/ loop.pc = "done"))
        ~> (loop.pc = "done" /\ ticker.helper = "returned")

====
